---- MODULE Spec2Model ----
(***************************************************************************)
(* Provisioning pipelines of xpegdrop_backend: the project-creation task   *)
(* (apps/projects/tasks.py) with the Dropbox client it drives              *)
(* (apps/dropbox_integration/services.py), the owner's update and delete   *)
(* views (apps/projects/views.py), and the user-creation task with its     *)
(* compensating cleanup (apps/authentication/tasks.py).                    *)
(*                                                                         *)
(* Remote services (Dropbox, the OAuth token endpoint, S3, Cognito) answer *)
(* every call with a nondeterministic outcome.  The record store answers   *)
(* the project pipeline's reads and writes reliably; it can reject the     *)
(* creation of a User row, and it can fail under the cleanup task.         *)
(***************************************************************************)
EXTENDS Naturals, Sequences, FiniteSets, TLC

\* ------------------------------------------------------------------ bounds
\* Largest number of inputs (direct files plus S3 locations) of one project.
MaxFiles == 4
\* Longest wait, in seconds, a rate-limit answer asks for.
MaxBackoff == 2
\* Largest number of second deliveries of cleanup messages.
MaxRedeliveries == 1

\* ------------------------------------------------------- program constants
\* @shared_task(bind=True, max_retries=3)
max_retries == 3
\* upload_files(self, files, folder_name, batch_size=3)
batch_size == 3

NULL == "null"
ProjectId == "p1"
ProjectName == "album"

VARIABLES
    \* ---- record store: projects table and the owner's row
    projects,           \* set of Project rows (at most one per project_id)
    owner_token,        \* User.dropbox_access_token of the owner (a version number)
    \* ---- task queue: the create_project_task message
    task_data,          \* payload captured by create_project
    pc,                 \* position of create_project_task
    retries,            \* self.request.retries
    \* ---- locals of the running attempt
    project,            \* the Project instance of lines 23 and 79
    files_to_upload,    \* the named byte streams, each with its read position
    loc_i,              \* S3 locations materialized so far
    dbx_token,          \* token of the attempt's current DropboxService
    upload_no,          \* 0: no upload_files call yet, 1: first, 2: after refresh
    file_i,             \* index into files of the running upload_files call
    content,            \* what _upload_single_file read from the stream
    result,             \* value returned by upload_files
    \* ---- Dropbox account
    dbx_folders,        \* folders that exist: path, and the project that made it
    dbx_files,          \* file index -> content stored under the project folder
    dbx_links,          \* folder paths that have a public shared link
    \* ---- history of the run
    attempts,           \* attempts started
    status_log,         \* statuses the pipeline persisted, in order
    processing_saved,   \* this attempt persisted `processing`
    ext_called,         \* this attempt called Dropbox or read a blob
    refresh_calls,      \* token-endpoint calls of this attempt
    upload_calls,       \* upload_files calls of this attempt
    first_error,        \* where the first upload_files call of this attempt failed
    raised,             \* the error that reached the failure handler
    outcome,            \* what the last attempt ended with
    rl_error,           \* the RateLimitError the client is handling
    slept,              \* seconds slept before the pending write
    ops,                \* remote operations of the running upload_files call
    \* ---- owner requests
    upd_pc, upd_inst,   \* ProjectUpdateView: position and loaded instance
    \* ---- user pipeline (apps/authentication/tasks.py)
    user_data,          \* payload of create_user_task
    DEBUG,              \* settings.DEBUG
    upc,                \* position of create_user_task
    uretries,           \* self.request.retries of create_user_task
    created_user_sub,   \* 0 stands for None
    uploaded_avatar_key,
    user_instance,      \* id of the created row, 0 for None
    users,              \* set of User rows
    cognito,            \* set of accounts at the identity provider
    blobs,              \* keys of the objects in the application bucket
    next_sub,           \* next subject id the provider issues
    cleanup_queue,      \* cleanup_failed_signup payloads waiting, in any order
    \* ---- history of the user pipeline
    uattempts,          \* attempts started
    enqueued,           \* cleanup tasks enqueued by the current attempt
    enq_payload,        \* the payload the current attempt enqueued
    signed_up,          \* sign-up returned a subject id in this attempt
    copied,             \* the avatar was copied in this attempt
    persisted,          \* the User row was created in this attempt
    uoutcome,           \* what the last attempt ended with
    ucalls,             \* external calls of the current attempt, with their success
    \* ---- the running cleanup_failed_signup
    cleanup_data,       \* its payload
    cpc,                \* its position
    attempted,          \* deletions it attempted
    cexit,              \* how it ended: returned or raised
    delete_refused,     \* a deletion failed while the thing to delete existed
    redelivered,        \* cleanup messages the broker delivered a second time
    \* ---- ratings (apps/ratings)
    ratings,            \* rows of the table `ratings`
    request_user,       \* user_id of the authenticated caller, NULL if none
    rating_req,         \* per client: the create_rating request it has open
    rating_resp,        \* status code of the last response sent
    last_value          \* per triple: value of the last submission answered 200/201

projVars == <<projects, owner_token, task_data, pc, retries, project,
              files_to_upload, loc_i, dbx_token, upload_no, file_i, content,
              result, dbx_folders, dbx_files, dbx_links, attempts, status_log,
              processing_saved, ext_called, refresh_calls, upload_calls,
              first_error, raised, outcome, rl_error, slept, ops>>
ownerVars == <<upd_pc, upd_inst>>
userVars == <<user_data, DEBUG, upc, uretries, created_user_sub,
              uploaded_avatar_key, user_instance, next_sub, uattempts,
              enqueued, enq_payload, signed_up, copied, persisted, uoutcome,
              ucalls>>
storeVars == <<users, cognito, blobs, cleanup_queue>>
cleanupVars == <<storeVars, cleanup_data, cpc, attempted, cexit, delete_refused,
                 redelivered>>
ratingVars == <<ratings, request_user, rating_req, rating_resp, last_value>>
vars == <<projVars, ownerVars, userVars, cleanupVars, ratingVars>>

\* ------------------------------------------------------------ project data
\* models.Project: the fields the pipeline and the owner's views write.
NoProject == [project_id |-> NULL, status |-> NULL, dropbox_folder_path |-> NULL,
              dropbox_shared_link |-> NULL, is_public |-> FALSE]

NoTask == [project_id |-> NULL, name |-> NULL, nfiles |-> 0, nlocs |-> 0,
           dropbox_access_token |-> 0, dropbox_refresh_token |-> FALSE]

NoResult == [folder_path |-> NULL, share_link |-> NULL]

NoError == [kind |-> "none", call |-> 0, at |-> "none"]

\* dropbox.exceptions.RateLimitError as the SDK raises it: the wait the
\* service asks for is its attribute `backoff`.
RateLimitError(seconds) == [error |-> "too_many_requests", backoff |-> seconds]

NoRateLimit == [error |-> "none", backoff |-> 0]

\* Line 77: retry_after = getattr(e, 'retry_after', 1)
RetryAfter(e) == IF "retry_after" \in DOMAIN e THEN e.retry_after ELSE 1

\* An entry of ops; file is 0 for the operations on the folder.
Op(name, file) == [op |-> name, file |-> file]

\* A folder of the account, with the project whose pipeline it belongs to.
Folder(path, project_id) == [path |-> path, by |-> project_id]

\* An earlier project of the same owner, which may have the same name.
OtherProjectId == "p0"

\* folder_path = f'/xpegdrop/{folder_name}'
FolderPath(folder_name) == "/xpegdrop/" \o folder_name

\* Faulty variant of SharedLinkUrl: the response's url is dropped.
NoSharedLinkUrl(path) == NULL

\* shared_link_response.url of the folder
SharedLinkUrl(path) == "https://dropbox/sh" \o path

\* files_get_metadata(path) finds something at the path.
PathExists(path) == \E f \in dbx_folders : f.path = path

\* Project.objects.get(project_id=...): the matching rows (none: DoesNotExist)
Lookup(project_id) == {r \in projects : r.project_id = project_id}

\* Model.save(): UPDATE of every field by key, INSERT when no row matched.
Save(inst) == {r \in projects : r.project_id # inst.project_id} \cup {inst}

\* A stream of files_to_upload: BytesIO with its name and whether it was read.
Stream(n) == [name |-> n, read |-> FALSE]

\* The inputs create_project accepts: at least one file or location.
Inputs == {<<nf, nl>> \in (0..MaxFiles) \X (0..MaxFiles) : nf + nl >= 1 /\ nf + nl <= MaxFiles}

InitProject ==
    /\ projects = {}
    /\ owner_token = 0
    /\ task_data = NoTask
    /\ pc = "none"
    /\ retries = 0
    /\ project = NoProject
    /\ files_to_upload = <<>>
    /\ loc_i = 0
    /\ dbx_token = 0
    /\ upload_no = 0
    /\ file_i = 0
    /\ content = "none"
    /\ result = NoResult
    /\ dbx_folders \in SUBSET {Folder(FolderPath(ProjectName), OtherProjectId)}
    /\ dbx_files = [f \in 1..MaxFiles |-> "none"]
    /\ dbx_links = {}
    /\ attempts = 0
    /\ status_log = <<>>
    /\ processing_saved = FALSE
    /\ ext_called = FALSE
    /\ refresh_calls = 0
    /\ upload_calls = 0
    /\ first_error = NoError
    /\ raised = NoError
    /\ outcome = "none"
    /\ rl_error = NoRateLimit
    /\ slept = 0
    /\ ops = <<>>
    /\ upd_pc = "idle"
    /\ upd_inst = NoProject

\* --------------------------------------------------------- create_project
\* views.create_project: the row in `initiated`, then the task is queued.
\* The payload is taken as the worker receives it: nf direct files with their
\* bytes, nl S3 locations, the owner's tokens as they were at the request.
create_project(nf, nl, refresh) ==
    /\ pc = "none"
    /\ projects' = Save([NoProject EXCEPT !.project_id = ProjectId,
                                          !.status = "initiated"])
    /\ task_data' = [project_id |-> ProjectId, name |-> ProjectName,
                     nfiles |-> nf, nlocs |-> nl,
                     dropbox_access_token |-> owner_token,
                     dropbox_refresh_token |-> refresh]
    /\ pc' = "queued"
    /\ retries' = 0
    /\ UNCHANGED <<owner_token, project, files_to_upload, loc_i, dbx_token,
                   upload_no, file_i, content, result, dbx_folders, dbx_files,
                   dbx_links, attempts, status_log, processing_saved,
                   ext_called, refresh_calls, upload_calls, first_error,
                   raised, outcome, rl_error, slept, ops>>
    /\ UNCHANGED <<ownerVars, ratingVars, userVars, cleanupVars>>

CreateProject == \E in \in Inputs, refresh \in BOOLEAN :
                    create_project(in[1], in[2], refresh)

\* ---------------------------------------------------- create_project_task
\* The part of the state no step of the task touches.
TaskFrame == UNCHANGED <<task_data, ownerVars, ratingVars, userVars, cleanupVars>>

\* Lines 15-23: a worker takes the message; the attempt's locals start fresh.
GetProject ==
    /\ pc = "queued"
    /\ attempts' = attempts + 1
    /\ files_to_upload' = <<>>
    /\ loc_i' = 0
    /\ upload_no' = 0
    /\ file_i' = 0
    /\ content' = "none"
    /\ result' = NoResult
    /\ processing_saved' = FALSE
    /\ ext_called' = FALSE
    /\ refresh_calls' = 0
    /\ upload_calls' = 0
    /\ first_error' = NoError
    /\ outcome' = "running"
    /\ IF Lookup(task_data.project_id) # {}
       THEN /\ project' \in Lookup(task_data.project_id)
            /\ raised' = NoError
            /\ pc' = "set_processing"
       ELSE /\ project' = NoProject
            /\ raised' = [kind |-> "DoesNotExist", call |-> 0, at |-> "get"]
            /\ pc' = "handler"
    /\ UNCHANGED <<projects, owner_token, retries, dbx_token, dbx_folders,
                   dbx_files, dbx_links, status_log>>
    /\ rl_error' = NoRateLimit
    /\ slept' = 0
    /\ ops' = <<>>
    /\ TaskFrame

\* Faulty variant of SaveProcessing: the status is set on the instance and
\* project.save() is left out.
SetProcessingUnsaved ==
    /\ pc = "set_processing"
    /\ project' = [project EXCEPT !.status = "processing"]
    /\ pc' = "files"
    /\ UNCHANGED <<projects, status_log, processing_saved>>
    /\ UNCHANGED <<owner_token, retries, files_to_upload, loc_i, dbx_token,
                   upload_no, file_i, content, result, dbx_folders, dbx_files,
                   dbx_links, attempts, ext_called, refresh_calls,
                   upload_calls, first_error, raised, outcome>>
    /\ UNCHANGED <<rl_error, slept, ops>>
    /\ TaskFrame

\* Lines 24-25: project.status = 'processing'; project.save()
SaveProcessing ==
    /\ pc = "set_processing"
    /\ project' = [project EXCEPT !.status = "processing"]
    /\ projects' = Save(project')
    /\ status_log' = Append(status_log, "processing")
    /\ processing_saved' = TRUE
    /\ pc' = "files"
    /\ UNCHANGED <<owner_token, retries, files_to_upload, loc_i, dbx_token,
                   upload_no, file_i, content, result, dbx_folders, dbx_files,
                   dbx_links, attempts, ext_called, refresh_calls,
                   upload_calls, first_error, raised, outcome>>
    /\ UNCHANGED <<rl_error, slept, ops>>
    /\ TaskFrame

\* Faulty variant of ProcessDirectFiles: the client is built from the token
\* on the owner's record as it is now.
ProcessDirectFilesCurrentToken ==
    /\ pc = "files"
    /\ dbx_token' = owner_token
    /\ files_to_upload' = [n \in 1..task_data.nfiles |-> Stream(n)]
    /\ loc_i' = 0
    /\ pc' = "locations"
    /\ UNCHANGED <<projects, owner_token, retries, project, upload_no, file_i,
                   content, result, dbx_folders, dbx_files, dbx_links,
                   attempts, status_log, processing_saved, ext_called,
                   refresh_calls, upload_calls, first_error, raised, outcome>>
    /\ UNCHANGED <<rl_error, slept, ops>>
    /\ TaskFrame

\* Lines 27-39: DropboxService(payload token); one BytesIO per direct file.
\* `from io import BytesIO` runs inside this loop only.
ProcessDirectFiles ==
    /\ pc = "files"
    /\ dbx_token' = task_data.dropbox_access_token
    /\ files_to_upload' = [n \in 1..task_data.nfiles |-> Stream(n)]
    /\ loc_i' = 0
    /\ pc' = "locations"
    /\ UNCHANGED <<projects, owner_token, retries, project, upload_no, file_i,
                   content, result, dbx_folders, dbx_files, dbx_links,
                   attempts, status_log, processing_saved, ext_called,
                   refresh_calls, upload_calls, first_error, raised, outcome>>
    /\ UNCHANGED <<rl_error, slept, ops>>
    /\ TaskFrame

\* Lines 42-46: get_s3_file, then BytesIO(file_content).  BytesIO is a local
\* name of the task, bound by the import in the direct-file loop: with no
\* direct file it is unbound here (UnboundLocalError).
ProcessS3Location ==
    /\ pc = "locations"
    /\ loc_i < task_data.nlocs
    /\ ext_called' = TRUE
    /\ \E ok \in BOOLEAN :
         IF ~ok
         THEN /\ raised' = [kind |-> "S3Error", call |-> 0, at |-> "get_s3_file"]
              /\ pc' = "handler"
              /\ UNCHANGED <<files_to_upload, loc_i>>
         ELSE IF task_data.nfiles = 0
         THEN /\ raised' = [kind |-> "UnboundLocalError", call |-> 0, at |-> "BytesIO"]
              /\ pc' = "handler"
              /\ UNCHANGED <<files_to_upload, loc_i>>
         ELSE /\ files_to_upload' =
                    Append(files_to_upload, Stream(task_data.nfiles + loc_i + 1))
              /\ loc_i' = loc_i + 1
              /\ UNCHANGED <<raised, pc>>
    /\ UNCHANGED <<projects, owner_token, retries, project, dbx_token,
                   upload_no, file_i, content, result, dbx_folders, dbx_files,
                   dbx_links, attempts, status_log, processing_saved,
                   refresh_calls, upload_calls, first_error, outcome>>
    /\ UNCHANGED <<rl_error, slept, ops>>
    /\ TaskFrame

\* ------------------------------------------- DropboxService.upload_files
\* What the attempt leaves alone while it is inside upload_files.
UploadFrame == UNCHANGED <<projects, retries, project, loc_i, attempts,
                           status_log, processing_saved, outcome>>

\* Faulty variant of UploadRaises: the refresh token is ignored and every
\* error of upload_files propagates.
UploadRaisesNoRefresh(at) ==
    /\ pc' = "handler"
    /\ raised' = [kind |-> "upload", call |-> upload_no, at |-> at]
    /\ first_error' = IF upload_no = 1 THEN raised' ELSE first_error

\* Lines 49-62 of the task: an error of the first upload_files call goes to
\* the token refresh when the payload carries a refresh token, and is
\* re-raised otherwise; an error of the second call propagates.
UploadRaises(at) ==
    IF upload_no = 1
    THEN /\ first_error' = [kind |-> "upload", call |-> 1, at |-> at]
         /\ IF task_data.dropbox_refresh_token
            THEN /\ pc' = "refresh"
                 /\ UNCHANGED raised
            ELSE /\ pc' = "handler"
                 /\ raised' = first_error'
    ELSE /\ pc' = "handler"
         /\ raised' = [kind |-> "upload", call |-> upload_no, at |-> at]
         /\ UNCHANGED first_error

\* Faulty variant of AfterFile: one pause, after the last file only.
AfterFileUnbatched(done) == IF done = Len(files_to_upload) THEN "pause" ELSE "read"

\* Lines 33-40 of the client: after file number `done` of the list, the
\* batch pause follows the last file of a batch, otherwise the next file.
AfterFile(done) ==
    IF done % batch_size = 0 \/ done = Len(files_to_upload) THEN "pause" ELSE "read"

\* Lines 33-43 of the client: the next file, or the shared link after the last.
NextFile(done) == IF done < Len(files_to_upload) THEN "read" ELSE "link"

\* Lines 50 and 60 of the task: dropbox_service.upload_files(files, name)
CallUploadFiles ==
    /\ pc = "call_upload"
    /\ upload_no' = upload_no + 1
    /\ upload_calls' = upload_calls + 1
    /\ file_i' = 0
    /\ pc' = "probe"
    /\ UNCHANGED <<owner_token, files_to_upload, dbx_token, content, result,
                   dbx_folders, dbx_files, dbx_links, ext_called,
                   refresh_calls, first_error, raised>>
    /\ rl_error' = NoRateLimit
    /\ slept' = 0
    /\ ops' = <<>>
    /\ UploadFrame /\ TaskFrame

\* Lines 42-46 of the task end here: every location is materialized.
FilesReady ==
    /\ pc = "locations"
    /\ loc_i = task_data.nlocs
    /\ pc' = "call_upload"
    /\ UNCHANGED <<owner_token, files_to_upload, dbx_token, upload_no, file_i,
                   content, result, dbx_folders, dbx_files, dbx_links,
                   ext_called, refresh_calls, upload_calls, first_error, raised>>
    /\ UNCHANGED <<rl_error, slept, ops>>
    /\ UploadFrame /\ TaskFrame

\* folder_exists (lines 14-22) as called at line 29.
FolderExists ==
    /\ pc = "probe"
    /\ ext_called' = TRUE
    /\ \E ok \in BOOLEAN :
         IF ok
         THEN /\ pc' = IF PathExists(FolderPath(task_data.name))
                       THEN NextFile(0) ELSE "mkdir"
              /\ UNCHANGED <<first_error, raised>>
         ELSE UploadRaises("folder_exists")
    /\ UNCHANGED <<owner_token, files_to_upload, dbx_token, upload_no, file_i,
                   content, result, dbx_folders, dbx_files, dbx_links,
                   refresh_calls, upload_calls>>
    /\ ops' = Append(ops, Op("probe", 0))
    /\ UNCHANGED <<rl_error, slept>>
    /\ UploadFrame /\ TaskFrame

\* Line 30: files_create_folder_v2(folder_path, autorename=True)
CreateFolder ==
    /\ pc = "mkdir"
    /\ ext_called' = TRUE
    /\ \E ok \in BOOLEAN :
         IF ok
         THEN /\ dbx_folders' = dbx_folders \cup
                    {Folder(IF PathExists(FolderPath(task_data.name))
                            THEN FolderPath(task_data.name) \o " (1)"
                            ELSE FolderPath(task_data.name),
                            task_data.project_id)}
              /\ pc' = NextFile(0)
              /\ UNCHANGED <<first_error, raised>>
         ELSE /\ UploadRaises("create_folder")
              /\ UNCHANGED dbx_folders
    /\ UNCHANGED <<owner_token, files_to_upload, dbx_token, upload_no, file_i,
                   content, result, dbx_files, dbx_links, refresh_calls,
                   upload_calls>>
    /\ ops' = Append(ops, Op("mkdir", 0))
    /\ UNCHANGED <<rl_error, slept>>
    /\ UploadFrame /\ TaskFrame

\* _upload_single_file, lines 57-63: content = file_obj.read().  A stream that
\* was read before is at its end and yields no bytes.
ReadFile ==
    /\ pc = "read"
    /\ content' = IF files_to_upload[file_i + 1].read THEN "empty" ELSE "full"
    /\ files_to_upload' = [files_to_upload EXCEPT ![file_i + 1].read = TRUE]
    /\ pc' = "write"
    /\ UNCHANGED <<owner_token, dbx_token, upload_no, file_i, result,
                   dbx_folders, dbx_files, dbx_links, ext_called,
                   refresh_calls, upload_calls, first_error, raised>>
    /\ UNCHANGED <<rl_error, slept, ops>>
    /\ UploadFrame /\ TaskFrame

\* Faulty variant of WriteFails: the error is logged and the loop goes on
\* with the next file.
WriteFailsSkipped(name) ==
    /\ ops' = Append(ops, Op("write_error", name))
    /\ file_i' = file_i + 1
    /\ pc' = AfterFile(file_i + 1)
    /\ UNCHANGED <<dbx_files, rl_error, slept, first_error, raised>>

\* Faulty variant of WriteFails: every error of files_upload is caught like
\* a rate limit and the file is sent again at once.
WriteFailsRetried(name) ==
    /\ pc' = "read"
    /\ UNCHANGED <<ops, dbx_files, file_i, rl_error, slept, first_error, raised>>

\* Lines 67-75: an error of files_upload other than RateLimitError is not
\* caught; it leaves _upload_single_file and upload_files.
WriteFails(name) ==
    /\ ops' = Append(ops, Op("write_error", name))
    /\ UploadRaises("files_upload")
    /\ UNCHANGED <<dbx_files, file_i, rl_error, slept>>

\* _upload_single_file, lines 65-78: files_upload(content, file_path,
\* mode=add, autorename=False).  The write is accepted when the path is free
\* or already holds the same bytes; a rate-limit answer leads to the sleep;
\* a conflict or any other error propagates.
WriteFile ==
    /\ pc = "write"
    /\ ext_called' = TRUE
    /\ \E answer \in {"ok", "rate_limit", "error"} :
         LET name == files_to_upload[file_i + 1].name IN
         CASE answer = "ok" /\ dbx_files[name] \in {"none", content} ->
                /\ dbx_files' = [dbx_files EXCEPT ![name] = content]
                /\ file_i' = file_i + 1
                /\ pc' = AfterFile(file_i + 1)
                /\ ops' = Append(ops, Op("write", name))
                /\ rl_error' = NoRateLimit
                /\ slept' = 0
                /\ UNCHANGED <<first_error, raised>>
           [] answer = "rate_limit" ->
                /\ pc' = "backoff"
                /\ \E seconds \in 0..MaxBackoff : rl_error' = RateLimitError(seconds)
                /\ slept' = 0
                /\ UNCHANGED <<dbx_files, file_i, first_error, raised, ops>>
           [] OTHER -> WriteFails(name)
    /\ UNCHANGED <<owner_token, files_to_upload, dbx_token, upload_no, content,
                   result, dbx_folders, dbx_links, refresh_calls, upload_calls>>
    /\ UploadFrame /\ TaskFrame

\* Faulty variant of RateLimitSleep: after the sleep the upload starts over
\* with the first file.
RateLimitSleepThenRestart ==
    /\ pc = "backoff"
    /\ pc' = "read"
    /\ file_i' = 0
    /\ UNCHANGED <<owner_token, files_to_upload, dbx_token, upload_no,
                   content, result, dbx_folders, dbx_files, dbx_links,
                   ext_called, refresh_calls, upload_calls, first_error, raised>>
    /\ slept' = RetryAfter(rl_error) + 1
    /\ rl_error' = NoRateLimit
    /\ UNCHANGED ops
    /\ UploadFrame /\ TaskFrame

\* Lines 75-78: time.sleep(retry_after + 1), then the same write again.
\* slept holds the wait of the last answer until the write is answered again.
RateLimitSleep ==
    /\ pc = "backoff"
    /\ pc' = "write"
    /\ UNCHANGED <<owner_token, files_to_upload, dbx_token, upload_no, file_i,
                   content, result, dbx_folders, dbx_files, dbx_links,
                   ext_called, refresh_calls, upload_calls, first_error, raised>>
    /\ slept' = RetryAfter(rl_error) + 1
    /\ rl_error' = NoRateLimit
    /\ UNCHANGED ops
    /\ UploadFrame /\ TaskFrame

\* Line 40: time.sleep(0.5) after each batch.
BatchPause ==
    /\ pc = "pause"
    /\ pc' = NextFile(file_i)
    /\ UNCHANGED <<owner_token, files_to_upload, dbx_token, upload_no, file_i,
                   content, result, dbx_folders, dbx_files, dbx_links,
                   ext_called, refresh_calls, upload_calls, first_error, raised>>
    /\ ops' = Append(ops, Op("pause", 0))
    /\ UNCHANGED <<rl_error, slept>>
    /\ UploadFrame /\ TaskFrame

\* Lines 43-53: sharing_create_shared_link_with_settings, then the result.
CreateSharedLink ==
    /\ pc = "link"
    /\ ext_called' = TRUE
    /\ \E ok \in BOOLEAN :
         IF ok
         THEN /\ dbx_links' = dbx_links \cup {FolderPath(task_data.name)}
              /\ result' = [folder_path |-> FolderPath(task_data.name),
                            share_link |-> SharedLinkUrl(FolderPath(task_data.name))]
              /\ pc' = "save_created"
              /\ UNCHANGED <<first_error, raised>>
         ELSE /\ UploadRaises("create_shared_link")
              /\ UNCHANGED <<dbx_links, result>>
    /\ UNCHANGED <<owner_token, files_to_upload, dbx_token, upload_no, file_i,
                   content, dbx_folders, dbx_files, refresh_calls, upload_calls>>
    /\ ops' = Append(ops, Op("link", 0))
    /\ UNCHANGED <<rl_error, slept>>
    /\ UploadFrame /\ TaskFrame

\* Lines 53-59 of the task with refresh_token (services.py 137-167): a 200
\* answer stores the new access token on the owner's row and rebinds the
\* client; any other answer raises.
RefreshToken ==
    /\ pc = "refresh"
    /\ refresh_calls' = refresh_calls + 1
    /\ \E ok \in BOOLEAN :
         IF ok
         THEN /\ owner_token' = owner_token + 1
              /\ dbx_token' = owner_token + 1
              /\ pc' = "call_upload"
              /\ UNCHANGED raised
         ELSE /\ raised' = [kind |-> "refresh", call |-> 1, at |-> "refresh_token"]
              /\ pc' = "handler"
              /\ UNCHANGED <<owner_token, dbx_token>>
    /\ UNCHANGED <<files_to_upload, upload_no, file_i, content, result,
                   dbx_folders, dbx_files, dbx_links, ext_called,
                   upload_calls, first_error>>
    /\ UNCHANGED <<rl_error, slept, ops>>
    /\ UploadFrame /\ TaskFrame

\* ---------------------------------------- create_project_task, the endings
\* Faulty variant of SaveCreated: the save of `created` is followed by an
\* error inside the try block, which takes the attempt to the handler.
SaveCreatedThenRaise ==
    /\ pc = "save_created"
    /\ project' = [project EXCEPT !.dropbox_folder_path = result.folder_path,
                                  !.dropbox_shared_link = result.share_link,
                                  !.status = "created"]
    /\ projects' = Save(project')
    /\ status_log' = Append(status_log, "created")
    /\ raised' = [kind |-> "after_save", call |-> 0, at |-> "return"]
    /\ pc' = "handler"
    /\ UNCHANGED <<owner_token, retries, files_to_upload, loc_i, dbx_token,
                   upload_no, file_i, content, result, dbx_folders, dbx_files,
                   dbx_links, attempts, processing_saved, ext_called,
                   refresh_calls, upload_calls, first_error, outcome>>
    /\ UNCHANGED <<rl_error, slept, ops>>
    /\ TaskFrame

\* Lines 64-74: folder path, shared link and `created` in one save; success.
SaveCreated ==
    /\ pc = "save_created"
    /\ project' = [project EXCEPT !.dropbox_folder_path = result.folder_path,
                                  !.dropbox_shared_link = result.share_link,
                                  !.status = "created"]
    /\ projects' = Save(project')
    /\ status_log' = Append(status_log, "created")
    /\ outcome' = "success"
    /\ pc' = "done"
    /\ UNCHANGED <<owner_token, retries, files_to_upload, loc_i, dbx_token,
                   upload_no, file_i, content, result, dbx_folders, dbx_files,
                   dbx_links, attempts, processing_saved, ext_called,
                   refresh_calls, upload_calls, first_error, raised>>
    /\ UNCHANGED <<rl_error, slept, ops>>
    /\ TaskFrame

\* Faulty variant of FailLookup: Project.DoesNotExist is not caught in the
\* handler and ends the task without a retry.
FailLookupRaises ==
    /\ pc = "handler"
    /\ IF Lookup(task_data.project_id) # {}
       THEN /\ project' \in Lookup(task_data.project_id)
            /\ pc' = "fail_save"
            /\ UNCHANGED outcome
       ELSE /\ pc' = "done"
            /\ outcome' = "failure"
            /\ UNCHANGED project
    /\ UNCHANGED <<projects, owner_token, retries, files_to_upload, loc_i,
                   dbx_token, upload_no, file_i, content, result, dbx_folders,
                   dbx_files, dbx_links, attempts, status_log,
                   processing_saved, ext_called, refresh_calls, upload_calls,
                   first_error, raised>>
    /\ UNCHANGED <<rl_error, slept, ops>>
    /\ TaskFrame

\* Lines 76-79, 82-83: the handler looks the project up again; a missing row
\* is swallowed.
FailLookup ==
    /\ pc = "handler"
    /\ IF Lookup(task_data.project_id) # {}
       THEN /\ project' \in Lookup(task_data.project_id)
            /\ pc' = "fail_save"
       ELSE /\ pc' = "retry_check"
            /\ UNCHANGED project
    /\ UNCHANGED <<projects, owner_token, retries, files_to_upload, loc_i,
                   dbx_token, upload_no, file_i, content, result, dbx_folders,
                   dbx_files, dbx_links, attempts, status_log,
                   processing_saved, ext_called, refresh_calls, upload_calls,
                   first_error, raised, outcome>>
    /\ UNCHANGED <<rl_error, slept, ops>>
    /\ TaskFrame

\* Faulty variant of FailSave: `failed` is persisted only by the attempt
\* that has no retry left.
FailSaveWhenExhausted ==
    /\ pc = "fail_save"
    /\ project' = [project EXCEPT !.status = "failed"]
    /\ IF retries < max_retries
       THEN UNCHANGED <<projects, status_log>>
       ELSE /\ projects' = Save(project')
            /\ status_log' = Append(status_log, "failed")
    /\ pc' = "retry_check"
    /\ UNCHANGED <<owner_token, retries, files_to_upload, loc_i, dbx_token,
                   upload_no, file_i, content, result, dbx_folders, dbx_files,
                   dbx_links, attempts, processing_saved, ext_called,
                   refresh_calls, upload_calls, first_error, raised, outcome>>
    /\ UNCHANGED <<rl_error, slept, ops>>
    /\ TaskFrame

\* Lines 80-81: project.status = 'failed'; project.save()
FailSave ==
    /\ pc = "fail_save"
    /\ project' = [project EXCEPT !.status = "failed"]
    /\ projects' = Save(project')
    /\ status_log' = Append(status_log, "failed")
    /\ pc' = "retry_check"
    /\ UNCHANGED <<owner_token, retries, files_to_upload, loc_i, dbx_token,
                   upload_no, file_i, content, result, dbx_folders, dbx_files,
                   dbx_links, attempts, processing_saved, ext_called,
                   refresh_calls, upload_calls, first_error, raised, outcome>>
    /\ UNCHANGED <<rl_error, slept, ops>>
    /\ TaskFrame

\* Faulty variant of MayRetry: the comparison is off by one.
MayRetryOnceMore == retries <= max_retries

\* Line 86: if self.request.retries < self.max_retries
MayRetry == retries < max_retries

\* Lines 85-93: self.retry(countdown=60) puts the message back with one more
\* retry counted; with the retries used up the task returns success=False.
RetryOrReturn ==
    /\ pc = "retry_check"
    /\ IF MayRetry
       THEN /\ retries' = retries + 1
            /\ outcome' = "retry"
            /\ pc' = "queued"
       ELSE /\ outcome' = "failure"
            /\ pc' = "done"
            /\ UNCHANGED retries
    /\ UNCHANGED <<projects, owner_token, project, files_to_upload, loc_i,
                   dbx_token, upload_no, file_i, content, result, dbx_folders,
                   dbx_files, dbx_links, attempts, status_log,
                   processing_saved, ext_called, refresh_calls, upload_calls,
                   first_error, raised>>
    /\ UNCHANGED <<rl_error, slept, ops>>
    /\ TaskFrame

\* ------------------------------------------------------- owner's requests
\* ProjectUpdateView (lines 33-39): get_object() loads the row ...
UpdateLoad ==
    /\ upd_pc = "idle"
    /\ Lookup(ProjectId) # {}
    /\ upd_inst' \in Lookup(ProjectId)
    /\ upd_pc' = "loaded"
    /\ UNCHANGED <<projVars, ratingVars, userVars, cleanupVars>>

\* Faulty variant of UpdateSave: only the serializer's fields are written
\* (save(update_fields=...)), onto the row as it is now.
UpdateSaveFields ==
    /\ upd_pc = "loaded"
    /\ projects' = {[r EXCEPT !.is_public = TRUE] : r \in Lookup(upd_inst.project_id)}
    /\ upd_pc' = "idle"
    /\ upd_inst' = NoProject
    /\ UNCHANGED <<owner_token, task_data, pc, retries, project,
                   files_to_upload, loc_i, dbx_token, upload_no, file_i,
                   content, result, dbx_folders, dbx_files, dbx_links,
                   attempts, status_log, processing_saved, ext_called,
                   refresh_calls, upload_calls, first_error, raised, outcome,
                   rl_error, slept, ops>>
    /\ UNCHANGED <<ratingVars, userVars, cleanupVars>>

\* ... and serializer.save() writes the whole instance back with the
\* editable fields of UpdateProjectSerializer changed (here: made public).
UpdateSave ==
    /\ upd_pc = "loaded"
    /\ projects' = Save([upd_inst EXCEPT !.is_public = TRUE])
    /\ upd_pc' = "idle"
    /\ upd_inst' = NoProject
    /\ UNCHANGED <<owner_token, task_data, pc, retries, project,
                   files_to_upload, loc_i, dbx_token, upload_no, file_i,
                   content, result, dbx_folders, dbx_files, dbx_links,
                   attempts, status_log, processing_saved, ext_called,
                   refresh_calls, upload_calls, first_error, raised, outcome,
                   rl_error, slept, ops>>
    /\ UNCHANGED <<ratingVars, userVars, cleanupVars>>

\* ProjectDeleteView.destroy (lines 48-51): the row is deleted.
DeleteProject ==
    /\ Lookup(ProjectId) # {}
    /\ projects' = projects \ Lookup(ProjectId)
    /\ UNCHANGED <<owner_token, task_data, pc, retries, project,
                   files_to_upload, loc_i, dbx_token, upload_no, file_i,
                   content, result, dbx_folders, dbx_files, dbx_links,
                   attempts, status_log, processing_saved, ext_called,
                   refresh_calls, upload_calls, first_error, raised, outcome,
                   rl_error, slept, ops>>
    /\ UNCHANGED <<ownerVars, ratingVars, userVars, cleanupVars>>

\* ------------------------------------------------------- the project specs
PipelineStep ==
    \/ GetProject \/ SaveProcessing \/ ProcessDirectFiles \/ ProcessS3Location
    \/ FilesReady \/ CallUploadFiles \/ FolderExists \/ CreateFolder
    \/ ReadFile \/ WriteFile \/ RateLimitSleep \/ BatchPause
    \/ CreateSharedLink \/ RefreshToken \/ SaveCreated
    \/ FailLookup \/ FailSave \/ RetryOrReturn

\* ------------------------------------------------------ user pipeline data
Username == "ada"

\* user_data['dropbox'] as the signup and the token requests carry it: each
\* of the two tokens is given or not (dict.get yields None for a missing one).
DropboxBodies ==
    {[access_token |-> a, refresh_token |-> r] : a \in {NULL, "at1"}, r \in {NULL, "rt1"}}

NoDropbox == [access_token |-> NULL, refresh_token |-> NULL]

NoUserData == [username |-> NULL, avatar |-> FALSE, dropbox |-> NoDropbox]

\* The cleanup payload: {user_sub, username, uploaded_avatar_key, user_instance_id}
NoCleanup == [user_sub |-> 0, username |-> NULL, uploaded_avatar_key |-> NULL,
              user_instance_id |-> 0]

\* seq without its k-th element
RemoveAt(seq, k) == [j \in 1..(Len(seq) - 1) |-> IF j < k THEN seq[j] ELSE seq[j + 1]]

InitUser ==
    /\ user_data = NoUserData
    /\ upc = "none"
    /\ uretries = 0
    /\ created_user_sub = 0
    /\ uploaded_avatar_key = NULL
    /\ user_instance = 0
    /\ next_sub = 1
    /\ uattempts = 0
    /\ enqueued = 0
    /\ enq_payload = NoCleanup
    /\ signed_up = FALSE
    /\ copied = FALSE
    /\ persisted = FALSE
    /\ uoutcome = "none"
    /\ ucalls = <<>>

InitStores ==
    /\ users = {}
    /\ cognito = {}
    /\ blobs = {}
    /\ cleanup_queue = <<>>

InitCleanup ==
    /\ cleanup_data = NoCleanup
    /\ cpc = "idle"
    /\ attempted = {}
    /\ cexit = "none"
    /\ delete_refused = FALSE
    /\ redelivered = 0

\* ------------------------------------------------------------------ signup
\* views.signup (lines 49-62): create_user_task.delay(data)
signup ==
    /\ upc = "none"
    /\ \E avatar \in BOOLEAN, dropbox \in DropboxBodies :
         user_data' = [username |-> Username, avatar |-> avatar, dropbox |-> dropbox]
    /\ upc' = "queued"
    /\ uretries' = 0
    /\ UNCHANGED <<DEBUG, created_user_sub, uploaded_avatar_key, user_instance,
                   next_sub, uattempts, enqueued, enq_payload, signed_up,
                   copied, persisted, uoutcome, ucalls>>
    /\ UNCHANGED <<projVars, ownerVars, ratingVars, cleanupVars>>

\* -------------------------------------------------------- create_user_task
UserFrame == UNCHANGED <<user_data, DEBUG, projVars, ownerVars, ratingVars,
                         cleanup_data, cpc, attempted, cexit, delete_refused,
                         redelivered>>

\* Lines 42-67: the attempt starts with its three captures at None and calls
\* cognito_client.sign_up; the provider keys accounts by username.
SignUp ==
    /\ upc = "queued"
    /\ uattempts' = uattempts + 1
    /\ uploaded_avatar_key' = NULL
    /\ user_instance' = 0
    /\ enqueued' = 0
    /\ enq_payload' = NoCleanup
    /\ copied' = FALSE
    /\ persisted' = FALSE
    /\ uoutcome' = "running"
    /\ \E ok \in BOOLEAN :
         IF ok /\ ~(\E a \in cognito : a.username = user_data.username)
         THEN /\ cognito' = cognito \cup {[username |-> user_data.username,
                                           sub |-> next_sub]}
              /\ ucalls' = <<[call |-> "sign_up", ok |-> TRUE]>>
              /\ created_user_sub' = next_sub
              /\ next_sub' = next_sub + 1
              /\ signed_up' = TRUE
              /\ upc' = IF DEBUG THEN "confirm" ELSE "avatar"
         ELSE /\ created_user_sub' = 0
              /\ ucalls' = <<[call |-> "sign_up", ok |-> FALSE]>>
              /\ signed_up' = FALSE
              /\ upc' = "uhandler"
              /\ UNCHANGED <<cognito, next_sub>>
    /\ UNCHANGED <<uretries, users, blobs, cleanup_queue>>
    /\ UserFrame

\* Faulty variant of ConfirmSignUp: a failed confirmation is swallowed and
\* the attempt goes on.
ConfirmSignUpSwallowed ==
    /\ upc = "confirm"
    /\ \E ok \in BOOLEAN :
         /\ upc' = "avatar"
         /\ ucalls' = Append(ucalls, [call |-> "confirm_sign_up", ok |-> ok])
    /\ UNCHANGED <<uretries, created_user_sub, uploaded_avatar_key,
                   user_instance, next_sub, uattempts, enqueued, enq_payload,
                   signed_up, copied, persisted, uoutcome, storeVars>>
    /\ UserFrame

\* Lines 69-74: admin_confirm_sign_up, reached with settings.DEBUG only.
ConfirmSignUp ==
    /\ upc = "confirm"
    /\ \E ok \in BOOLEAN :
         /\ upc' = IF ok THEN "avatar" ELSE "uhandler"
         /\ ucalls' = Append(ucalls, [call |-> "confirm_sign_up", ok |-> ok])
    /\ UNCHANGED <<uretries, created_user_sub, uploaded_avatar_key,
                   user_instance, next_sub, uattempts, enqueued, enq_payload,
                   signed_up, copied, persisted, uoutcome, storeVars>>
    /\ UserFrame

\* Lines 76-102.  With an avatar the task calls copy_s3_object(s3_client,
\* source_bucket=..., source_key=..., dest_bucket=..., dest_key=...), while
\* s3_utils.copy_s3_object takes (source_bucket, source_key, dest_bucket,
\* dest_key): the call binds source_bucket twice and raises TypeError before
\* anything is copied, so lines 95-102 are never reached.
HandleAvatar ==
    /\ upc = "avatar"
    /\ upc' = IF user_data.avatar THEN "uhandler" ELSE "create_user"
    /\ UNCHANGED <<uretries, created_user_sub, uploaded_avatar_key,
                   user_instance, next_sub, uattempts, enqueued, enq_payload,
                   signed_up, copied, persisted, uoutcome, ucalls, storeVars>>
    /\ UserFrame

\* Faulty variant of CreateUser: a statement after the creation raises, with
\* user_instance already bound.
CreateUserThenRaise ==
    /\ upc = "create_user"
    /\ \E ok \in BOOLEAN :
         /\ ucalls' = Append(ucalls, [call |-> "create_user", ok |-> ok])
         /\ IF ok
            THEN /\ users' = users \cup {[id |-> uattempts,
                                          user_id |-> created_user_sub,
                                          username |-> user_data.username,
                                          avatar_bucket |-> NULL,
                                          avatar_key |-> NULL,
                                          dropbox_access_token |->
                                              user_data.dropbox.access_token,
                                          dropbox_refresh_token |->
                                              user_data.dropbox.refresh_token]}
                 /\ user_instance' = uattempts
                 /\ persisted' = TRUE
                 /\ upc' = "uhandler"
                 /\ UNCHANGED uoutcome
            ELSE /\ upc' = "uhandler"
                 /\ UNCHANGED <<users, user_instance, persisted, uoutcome>>
    /\ UNCHANGED <<uretries, created_user_sub, uploaded_avatar_key, next_sub,
                   uattempts, enqueued, enq_payload, signed_up, copied,
                   cognito, blobs, cleanup_queue>>
    /\ UserFrame

\* Lines 104-124: User.objects.create; the store can reject the row.
CreateUser ==
    /\ upc = "create_user"
    /\ \E ok \in BOOLEAN :
         /\ ucalls' = Append(ucalls, [call |-> "create_user", ok |-> ok])
         /\ IF ok
            THEN /\ users' = users \cup {[id |-> uattempts,
                                          user_id |-> created_user_sub,
                                          username |-> user_data.username,
                                          avatar_bucket |-> NULL,
                                          avatar_key |-> NULL,
                                          dropbox_access_token |->
                                              user_data.dropbox.access_token,
                                          dropbox_refresh_token |->
                                              user_data.dropbox.refresh_token]}
                 /\ user_instance' = uattempts
                 /\ persisted' = TRUE
                 /\ uoutcome' = "success"
                 /\ upc' = "done"
            ELSE /\ upc' = "uhandler"
                 /\ UNCHANGED <<users, user_instance, persisted, uoutcome>>
    /\ UNCHANGED <<uretries, created_user_sub, uploaded_avatar_key, next_sub,
                   uattempts, enqueued, enq_payload, signed_up, copied,
                   cognito, blobs, cleanup_queue>>
    /\ UserFrame

\* Faulty variant of CleanupPayload: the subject id is left out.
CleanupPayloadWithoutSub == [user_sub |-> 0,
                             username |-> user_data.username,
                             uploaded_avatar_key |-> uploaded_avatar_key,
                             user_instance_id |-> user_instance]

\* Lines 128-133: the payload built from the attempt's captures.
CleanupPayload == [user_sub |-> created_user_sub,
                   username |-> user_data.username,
                   uploaded_avatar_key |-> uploaded_avatar_key,
                   user_instance_id |-> user_instance]

\* Lines 126-133: cleanup_failed_signup.delay(payload)
EnqueueCleanup ==
    /\ upc = "uhandler"
    /\ cleanup_queue' = Append(cleanup_queue, CleanupPayload)
    /\ enq_payload' = CleanupPayload
    /\ enqueued' = enqueued + 1
    /\ upc' = "uretry_check"
    /\ UNCHANGED <<uretries, created_user_sub, uploaded_avatar_key,
                   user_instance, next_sub, uattempts, signed_up, copied,
                   persisted, uoutcome, ucalls, users, cognito, blobs>>
    /\ UserFrame

\* Line 136: if self.request.retries < self.max_retries
UserMayRetry == uretries < max_retries

\* Lines 135-143: retry from step 1, or success=False with the retries used up.
UserRetryOrReturn ==
    /\ upc = "uretry_check"
    /\ IF UserMayRetry
       THEN /\ uretries' = uretries + 1
            /\ uoutcome' = "retry"
            /\ upc' = "queued"
       ELSE /\ uoutcome' = "failure"
            /\ upc' = "done"
            /\ UNCHANGED uretries
    /\ UNCHANGED <<created_user_sub, uploaded_avatar_key, user_instance,
                   next_sub, uattempts, enqueued, enq_payload, signed_up,
                   copied, persisted, ucalls, storeVars>>
    /\ UserFrame

\* --------------------------------------------------- cleanup_failed_signup
CleanupFrame == UNCHANGED <<projVars, ownerVars, ratingVars, userVars, cleanup_queue,
                            cleanup_data, redelivered>>

\* Faulty variant of HasUserRecord: the record is looked up whenever the
\* payload names a user.
HasUsername(data) == data.username # NULL

\* Line 152: if cleanup_data.get('user_instance_id')
HasUserRecord(data) == data.user_instance_id # 0

\* Faulty variant of HasAccount: the account is deleted only together with
\* a persisted record.
HasAccountAndRecord(data) == data.user_sub # 0 /\ data.user_instance_id # 0

\* Line 160: if cleanup_data.get('user_sub')
HasAccount(data) == data.user_sub # 0

\* Line 170: if cleanup_data.get('uploaded_avatar_key')
HasAvatarKey(data) == data.uploaded_avatar_key # NULL

\* Lines 156, 166 and 176: the error each inner except clause swallows.
InnerCatches(step, kind) ==
    \/ step = "db" /\ kind = "DoesNotExist"
    \/ step \in {"cognito", "s3"} /\ kind = "ClientError"

\* Faulty variant of OuterCatches: the outer handler is as narrow as the
\* inner ones.
OuterCatchesClientError(kind) == kind = "ClientError"

\* Line 179: except Exception
OuterCatches(kind) == TRUE

\* Where the task goes when a deletion raises `kind`: on to the next
\* deletion (to the return after the last) when the inner clause swallows
\* it, to the outer handler (print, then return) otherwise.
CleanupRaise(step, next, kind) ==
    IF InnerCatches(step, kind)
    THEN /\ cpc' = next
         /\ cexit' = IF next = "idle" THEN "returned" ELSE cexit
    ELSE /\ cpc' = "idle"
         /\ cexit' = IF OuterCatches(kind) THEN "returned" ELSE "raised"

\* A worker takes one cleanup message.
CleanupStart ==
    /\ cpc = "idle"
    /\ \E k \in 1..Len(cleanup_queue) :
         /\ cleanup_data' = cleanup_queue[k]
         /\ cleanup_queue' = RemoveAt(cleanup_queue, k)
    /\ cpc' = "db"
    /\ attempted' = {}
    /\ cexit' = "running"
    /\ UNCHANGED <<users, cognito, blobs, delete_refused, redelivered>>
    /\ UNCHANGED <<projVars, ownerVars, ratingVars, userVars>>

\* The broker (Redis, settings.py 161) delivers at least once: a message a
\* worker has taken can be delivered again, here the one taken last.
CleanupRedeliver ==
    /\ redelivered < MaxRedeliveries
    /\ cleanup_data # NoCleanup
    /\ cleanup_queue' = Append(cleanup_queue, cleanup_data)
    /\ redelivered' = redelivered + 1
    /\ UNCHANGED <<users, cognito, blobs, cleanup_data, cpc, attempted, cexit,
                   delete_refused>>
    /\ UNCHANGED <<projVars, ownerVars, ratingVars, userVars>>

\* Lines 151-157: User.objects.get(id=...), user.delete()
CleanupUser ==
    /\ cpc = "db"
    /\ IF HasUserRecord(cleanup_data)
       THEN /\ attempted' = attempted \cup {"db"}
            /\ \E kind \in {"found", "DatabaseError"} :
                 LET rows == {u \in users : u.id = cleanup_data.user_instance_id} IN
                 IF kind = "found" /\ rows # {}
                 THEN /\ users' = users \ rows
                      /\ cpc' = "cognito"
                      /\ UNCHANGED <<cexit, delete_refused>>
                 ELSE /\ CleanupRaise("db", "cognito",
                             IF kind = "found" THEN "DoesNotExist" ELSE kind)
                      /\ delete_refused' = (delete_refused \/ rows # {})
                      /\ UNCHANGED users
       ELSE /\ cpc' = "cognito"
            /\ UNCHANGED <<attempted, users, cexit, delete_refused>>
    /\ UNCHANGED <<cognito, blobs>>
    /\ CleanupFrame

\* Lines 159-167: admin_delete_user(Username=cleanup_data['username'])
CleanupCognito ==
    /\ cpc = "cognito"
    /\ IF HasAccount(cleanup_data)
       THEN /\ attempted' = attempted \cup {"cognito"}
            /\ \E kind \in {"ok", "ClientError", "BotoCoreError"} :
                 LET accounts == {a \in cognito : a.username = cleanup_data.username} IN
                 IF kind = "ok" /\ accounts # {}
                 THEN /\ cognito' = cognito \ accounts
                      /\ cpc' = "s3"
                      /\ UNCHANGED <<cexit, delete_refused>>
                 ELSE /\ CleanupRaise("cognito", "s3",
                             IF kind = "ok" THEN "ClientError" ELSE kind)
                      /\ delete_refused' = (delete_refused \/ accounts # {})
                      /\ UNCHANGED cognito
       ELSE /\ cpc' = "s3"
            /\ UNCHANGED <<attempted, cognito, cexit, delete_refused>>
    /\ UNCHANGED <<users, blobs>>
    /\ CleanupFrame

\* Lines 169-177: s3_client.delete_object(Bucket=app bucket, Key=...); the
\* task returns after it.
CleanupAvatar ==
    /\ cpc = "s3"
    /\ IF HasAvatarKey(cleanup_data)
       THEN /\ attempted' = attempted \cup {"s3"}
            /\ \E kind \in {"ok", "ClientError", "BotoCoreError"} :
                 IF kind = "ok"
                 THEN /\ blobs' = blobs \ {cleanup_data.uploaded_avatar_key}
                      /\ cpc' = "idle"
                      /\ cexit' = "returned"
                      /\ UNCHANGED delete_refused
                 ELSE /\ CleanupRaise("s3", "idle", kind)
                      /\ delete_refused' =
                            (delete_refused \/ cleanup_data.uploaded_avatar_key \in blobs)
                      /\ UNCHANGED blobs
       ELSE /\ cpc' = "idle"
            /\ cexit' = "returned"
            /\ UNCHANGED <<attempted, blobs, delete_refused>>
    /\ UNCHANGED <<users, cognito>>
    /\ CleanupFrame

\* ------------------------------------------------------------------- specs
UserStep ==
    \/ SignUp \/ ConfirmSignUp \/ HandleAvatar \/ CreateUser
    \/ EnqueueCleanup \/ UserRetryOrReturn

CleanupStep == CleanupStart \/ CleanupUser \/ CleanupCognito \/ CleanupAvatar

\* ---------------------------------------------------------------- ratings
\* apps/ratings/views.py, apps/ratings/models.py, apps/ratings/serializers.py.
MaxImages == 2
MaxValue == 2

\* Two clients, so that two requests can be open at the same time.
Clients == {1, 2}
Images == 1..MaxImages
RatingValues == 1..MaxValue

\* views.py lines 19-24: an unauthenticated request is attributed to
\* 'anonymous', an authenticated one to request.user.user_id.
UserIdAnonymous(user) == IF user = NULL THEN "anonymous" ELSE user

RequestUsers == {NULL, "u1"}

Identities == {UserIdAnonymous(u) : u \in RequestUsers}

\* Request bodies: with an integer value, or without one.
RatingBodies ==
    {[image_id |-> i, value |-> v] : i \in Images, v \in RatingValues}
    \cup {[image_id |-> i] : i \in Images}

\* CreateRatingSerializer.is_valid (serializers.py 15-18): the three fields
\* are required.
ValidRating(data) == {"image_id", "value"} \subseteq DOMAIN data

NoRating == [id |-> <<>>, rating_id |-> <<>>, project_id |-> NULL, image_id |-> 0,
             user_id_anonymous |-> NULL, value |-> 0]

NoRequest == [pc |-> "idle", image_id |-> 0, user_id_anonymous |-> NULL,
              value |-> 0, existing_rating |-> NoRating]

Triples == {<<ProjectId, i, u>> : i \in Images, u \in Identities}

TripleOf(r) == <<r.project_id, r.image_id, r.user_id_anonymous>>

\* Rating.objects.filter(project_id, image_id, user_id_anonymous)
\* (views.py 27-31).
RatingsOf(t) == {r \in ratings : TripleOf(r) = t}

\* uuid.uuid4() (views.py 43, models.py 8): a value no row has yet, here
\* named after the triple it is made for and the rows that triple has.
NewRatingId(t) == <<t, Cardinality(RatingsOf(t)) + 1>>

\* Faulty variant of ViolatesUnique: the table has no constraint on the
\* triple.
NoUniqueTogether(row) == FALSE

\* Rating.Meta.unique_together (models.py 18-20) and the primary key: the
\* database refuses a row whose triple another row has.
ViolatesUnique(row) ==
    \E r \in ratings : r.id # row.id /\ TripleOf(r) = TripleOf(row)

InitRatings ==
    /\ ratings = {}
    /\ request_user = NULL
    /\ rating_req = [c \in Clients |-> NoRequest]
    /\ rating_resp = 0
    /\ last_value = [t \in Triples |-> 0]

RatingFrame == UNCHANGED <<projVars, ownerVars, userVars, cleanupVars>>

\* create_rating, lines 12-31: validation, attribution, and the query for
\* an existing rating of the triple. An invalid body is answered 400.
create_rating(c) ==
    /\ rating_req[c].pc = "idle"
    /\ \E data \in RatingBodies :
         LET ident == UserIdAnonymous(request_user) IN
         IF ~ValidRating(data)
         THEN /\ rating_resp' = 400
              /\ UNCHANGED rating_req
         ELSE LET found == RatingsOf(<<ProjectId, data.image_id, ident>>) IN
              /\ rating_req' = [rating_req EXCEPT ![c] =
                    [pc |-> "checked", image_id |-> data.image_id,
                     user_id_anonymous |-> ident, value |-> data.value,
                     existing_rating |->
                        IF found = {} THEN NoRating
                        ELSE CHOOSE r \in found : TRUE]]
              /\ UNCHANGED rating_resp
    /\ UNCHANGED <<ratings, request_user, last_value>>
    /\ RatingFrame

\* Model.save() of a loaded instance: UPDATE by primary key, INSERT when no
\* row has that key; an INSERT or UPDATE that breaks the constraint raises
\* IntegrityError and changes nothing.
SaveRating(row) ==
    IF ViolatesUnique(row) THEN ratings
    ELSE {r \in ratings : r.id # row.id} \cup {row}

\* create_rating, lines 33-52: the existing rating is given the new value
\* and saved (200), or a new row is created (201). An IntegrityError is not
\* caught: the request is answered 500 and nothing is stored.
WriteRating(c) ==
    /\ rating_req[c].pc = "checked"
    /\ LET req == rating_req[c]
           new == NewRatingId(<<ProjectId, req.image_id, req.user_id_anonymous>>)
           row == IF req.existing_rating # NoRating
                  THEN [req.existing_rating EXCEPT !.value = req.value]
                  ELSE [id |-> new, rating_id |-> new,
                        project_id |-> ProjectId, image_id |-> req.image_id,
                        user_id_anonymous |-> req.user_id_anonymous,
                        value |-> req.value]
       IN /\ ratings' = SaveRating(row)
          /\ IF ViolatesUnique(row)
             THEN /\ rating_resp' = 500
                  /\ UNCHANGED last_value
             ELSE /\ rating_resp' =
                        IF req.existing_rating # NoRating THEN 200 ELSE 201
                  /\ last_value' = [last_value EXCEPT ![TripleOf(row)] = req.value]
    /\ rating_req' = [rating_req EXCEPT ![c] = NoRequest]
    /\ UNCHANGED request_user
    /\ RatingFrame


\* settings.py line 12: DEBUG defaults to True.
Init ==
    InitProject /\ InitUser /\ InitStores /\ InitCleanup /\ InitRatings
    /\ DEBUG = TRUE

\* The project pipeline of one create_project request.
Next == CreateProject \/ PipelineStep

Spec == Init /\ [][Next]_vars

\* A request with one direct file and one S3 location.
CreateSmallProject == \E refresh \in BOOLEAN : create_project(1, 1, refresh)

\* The pipeline of such a request with the owner's update and delete
\* requests taking place between any two of its steps.
NextOwner == CreateSmallProject \/ PipelineStep
             \/ UpdateLoad \/ UpdateSave \/ DeleteProject

SpecOwner == Init /\ [][NextOwner]_vars

\* The user pipeline of one signup with the cleanup tasks it enqueues, in
\* either deployment mode.
InitAnyMode ==
    InitProject /\ InitUser /\ InitStores /\ InitCleanup /\ InitRatings
    /\ DEBUG \in BOOLEAN

NextUser == signup \/ UserStep \/ CleanupStep

SpecUser == InitAnyMode /\ [][NextUser]_vars

\* ------------------------------------------------------- the token pair
\* users/views.py update_dropbox_token (47-63): a body without an access
\* token is answered 400; otherwise both fields are assigned from the body
\* and the record is saved.
update_dropbox_token ==
    /\ \E user \in users, dropbox_data \in DropboxBodies :
         /\ dropbox_data.access_token # NULL
         /\ users' = (users \ {user}) \cup
                {[user EXCEPT !.dropbox_access_token = dropbox_data.access_token,
                              !.dropbox_refresh_token = dropbox_data.refresh_token]}
    /\ UNCHANGED <<cognito, blobs, cleanup_queue, cleanup_data, cpc, attempted,
                   cexit, delete_refused, redelivered>>
    /\ UNCHANGED <<projVars, ownerVars, ratingVars, userVars>>

\* DropboxService.refresh_token (services.py 137-167), called for a user
\* whose refresh token is set (projects/views.py 171, projects/tasks.py 53):
\* on status 200 the new access token is stored and the record saved; any
\* other answer raises and stores nothing.
refresh_token ==
    /\ \E user \in users :
         /\ user.dropbox_refresh_token # NULL
         /\ users' = (users \ {user}) \cup {[user EXCEPT !.dropbox_access_token = "at2"]}
    /\ UNCHANGED <<cognito, blobs, cleanup_queue, cleanup_data, cpc, attempted,
                   cexit, delete_refused, redelivered>>
    /\ UNCHANGED <<projVars, ownerVars, ratingVars, userVars>>

\* The user pipeline with the two operations that write the token fields of
\* a stored record.
NextTokens == signup \/ UserStep \/ update_dropbox_token \/ refresh_token

SpecTokens == InitAnyMode /\ [][NextTokens]_vars

\* The same with a broker that delivers a cleanup message a second time.
NextRedelivery == signup \/ UserStep \/ CleanupStep \/ CleanupRedeliver

SpecRedelivery == InitAnyMode /\ [][NextRedelivery]_vars

\* cleanup_failed_signup on its own: one message with any combination of
\* the three payload fields, met by stores that hold or lack the row, the
\* account and the blob it names.
AvatarKey == "profile_images/1.png"

CleanupPayloads ==
    {[user_sub |-> s, username |-> Username, uploaded_avatar_key |-> k,
      user_instance_id |-> i] : s \in {0, 1}, k \in {NULL, AvatarKey}, i \in {0, 1}}

InitAnyCleanup ==
    /\ InitProject /\ InitUser /\ InitCleanup /\ InitRatings /\ DEBUG = TRUE
    /\ users \in SUBSET {[id |-> 1, user_id |-> 1, username |-> Username,
                          avatar_bucket |-> NULL, avatar_key |-> NULL,
                          dropbox_access_token |-> NULL,
                          dropbox_refresh_token |-> NULL]}
    /\ cognito \in SUBSET {[username |-> Username, sub |-> 1]}
    /\ blobs \in SUBSET {AvatarKey}
    /\ \E data \in CleanupPayloads : cleanup_queue = <<data>>

NextCleanup == CleanupStart \/ CleanupUser \/ CleanupCognito \/ CleanupAvatar

SpecCleanup == InitAnyCleanup /\ [][NextCleanup]_vars

\* One pipeline run by a worker that keeps executing it: either the project
\* pipeline of a small request or the user pipeline of a signup.
NextLive ==
    \/ upc = "none" /\ (CreateSmallProject \/ PipelineStep)
    \/ pc = "none" /\ (signup \/ UserStep)

SpecLive ==
    Init /\ [][NextLive]_vars /\ WF_vars(PipelineStep) /\ WF_vars(UserStep)

\* The rating endpoint called by two clients of one identity, anonymous or
\* authenticated, whose requests interleave between the query and the write.
InitAnyCaller ==
    /\ InitProject /\ InitUser /\ InitStores /\ InitCleanup /\ DEBUG = TRUE
    /\ ratings = {}
    /\ request_user \in RequestUsers
    /\ rating_req = [c \in Clients |-> NoRequest]
    /\ rating_resp = 0
    /\ last_value = [t \in Triples |-> 0]

NextRatings == \E c \in Clients : create_rating(c) \/ WriteRating(c)

SpecRatings == InitAnyCaller /\ [][NextRatings]_vars

\* ================================================================== claims
\* Statuses of the stored rows of the project.
Statuses == {r.status : r \in projects}

\* What create_project_task itself holds and records: a step of the task
\* changes some of it, a request of the owner changes none of it.
taskVars == <<pc, retries, project, files_to_upload, loc_i, dbx_token,
              upload_no, file_i, content, result, attempts, status_log,
              processing_saved, ext_called, refresh_calls, upload_calls,
              first_error, raised, outcome>>

\* Positions of the task inside upload_files.
UploadPcs == {"probe", "mkdir", "read", "write", "backoff", "pause", "link"}

\* Positions of the task after the attempt's main sequence raised.
FailedPcs == {"handler", "fail_save", "retry_check"}

\* C1 as stated: once the persisted status is `created` or `failed`, no step
\* of the task and no other operation changes it to a different value.
C1_TerminalStatusNeverChanges ==
    [][\A r \in projects : r.status \in {"created", "failed"} =>
          \A r2 \in projects' : r2.status = r.status]_vars

\* C1 as amended: no step of create_project_task is taken while the
\* persisted status is `created`, nor once the task has returned; a step of
\* the task that changes a persisted `failed` belongs to a retry attempt and
\* writes `processing` or `created`.
C1_TerminalForTheTask ==
    [][taskVars' # taskVars =>
          /\ "created" \notin Statuses
          /\ outcome \notin {"success", "failure"}
          /\ ("failed" \in Statuses /\ Statuses' # Statuses) =>
                /\ retries \in 1..max_retries
                /\ attempts = retries + 1
                /\ Statuses' \in {{"processing"}, {"created"}}]_vars

\* C1 witness: a retry attempt has overwritten `failed` with `processing`,
\* and a later attempt reached `created`.
C1_Witness ==
    /\ Statuses = {"created"}
    /\ pc = "done"
    /\ Len(status_log) >= 4
    /\ status_log[2] = "failed"
    /\ status_log[3] = "processing"

\* C2: the project is `initiated` from create_project until the first
\* attempt persists `processing`, and in every attempt `processing` is
\* persisted before the attempt reads a blob or calls the storage client.
C2_ProcessingBeforeStorage ==
    /\ (attempts = 0 /\ pc = "queued") => Statuses = {"initiated"}
    /\ (attempts = 1 /\ pc = "set_processing") => Statuses = {"initiated"}
    /\ ext_called => processing_saved
    /\ pc \in UploadPcs \cup {"locations", "call_upload", "refresh"} =>
          processing_saved /\ Statuses = {"processing"}

\* C2 witness: a retry attempt is writing a file of its second upload call.
C2_Witness ==
    /\ attempts >= 2
    /\ upload_no = 2
    /\ pc = "write"
    /\ ext_called
    /\ Statuses = {"processing"}

\* C3: a stored row has a folder path exactly when it has a shared link and
\* exactly when its status is `created`; the two values are those the
\* successful upload_files call of the attempt returned.
C3_FolderAndLinkWithCreated ==
    \A r \in projects :
        /\ (r.status = "created") <=> (r.dropbox_folder_path # NULL)
        /\ (r.status = "created") <=> (r.dropbox_shared_link # NULL)
        /\ r.status = "created" =>
              /\ outcome = "success"
              /\ status_log[Len(status_log)] = "created"
              /\ result # NoResult
              /\ r.dropbox_folder_path = result.folder_path
              /\ r.dropbox_shared_link = result.share_link
              /\ result.folder_path \in dbx_links

\* C3 witness: `created` reached by the second upload call of a retry
\* attempt, with the owner's update saved on top of it.
C3_Witness ==
    \E r \in projects :
        /\ r.status = "created"
        /\ r.is_public
        /\ attempts >= 2
        /\ upload_calls = 2
        /\ r.dropbox_folder_path = FolderPath(ProjectName)

\* (processing, failed) repeated k times
FailedRounds(k) == [i \in 1..(2 * k) |-> IF i % 2 = 1 THEN "processing" ELSE "failed"]

\* C4: every failed attempt persists `failed` before its retry is decided
\* and every attempt starts by persisting `processing`: with k failed
\* attempts behind it the task has persisted (processing, failed) k times,
\* followed by processing, created when the next attempt succeeds.
C4_StatusSequence ==
    /\ pc = "queued" => status_log = FailedRounds(retries)
    /\ pc \in UploadPcs \cup {"files", "locations", "call_upload", "refresh",
                              "save_created", "handler", "fail_save"} =>
          status_log = FailedRounds(retries) \o <<"processing">>
    /\ pc = "retry_check" => status_log = FailedRounds(retries + 1)
    /\ outcome = "success" =>
          status_log = FailedRounds(retries) \o <<"processing", "created">>
    /\ outcome = "failure" => status_log = FailedRounds(max_retries + 1)

\* C4 witness: two failed attempts, then a third that succeeded.
C4_Witness ==
    /\ outcome = "success"
    /\ retries = 2
    /\ status_log = <<"processing", "failed", "processing", "failed",
                      "processing", "created">>

\* C5: one task runs at most max_retries + 1 attempts; it returns
\* success=False only from the attempt with retries = max_retries, which is
\* the fourth, schedules nothing after it, and leaves the status `failed`.
C5_FourAttemptsThenFailure ==
    /\ retries <= max_retries
    /\ attempts = IF pc \in {"none", "queued"} THEN retries ELSE retries + 1
    /\ outcome = "retry" => pc = "queued"
    /\ pc = "done" => outcome \in {"success", "failure"}
    /\ outcome = "failure" =>
          /\ pc = "done"
          /\ retries = max_retries
          /\ attempts = max_retries + 1
          /\ raised # NoError
          /\ Statuses = {"failed"}

\* C5 witness: the fourth attempt failed in a file write and the task
\* returned success=False.
C5_Witness ==
    /\ outcome = "failure"
    /\ attempts = 4
    /\ raised.kind = "upload"
    /\ raised.at = "files_upload"

\* The attempt's main sequence is over (it raised, or upload_files returned).
AttemptOver == pc \in FailedPcs \cup {"save_created", "done", "queued"}

\* C6 as stated: after a failed first upload_files call, a payload with a
\* refresh token gives exactly one refresh call and exactly one retried
\* upload_files call; without one there is no refresh call and the error of
\* the first call is the one raised.
C6_ExactlyOneRefreshAndOneRetry ==
    (AttemptOver /\ first_error # NoError) =>
        IF task_data.dropbox_refresh_token
        THEN refresh_calls = 1 /\ upload_calls = 2
        ELSE refresh_calls = 0 /\ upload_calls = 1 /\ raised = first_error

\* C6 as amended: with a refresh token there is exactly one refresh call,
\* followed by exactly one retried upload_files call when the refresh
\* returned a token and by none when the refresh failed, whose error is then
\* the one raised; without a refresh token there is no refresh call and the
\* error of the first call is the one raised.
C6_RefreshFallback ==
    /\ refresh_calls <= 1
    /\ upload_calls = upload_no
    /\ first_error = NoError => refresh_calls = 0 /\ upload_calls <= 1
    /\ upload_calls = 2 => refresh_calls = 1 /\ dbx_token = owner_token
    /\ (AttemptOver /\ first_error # NoError) =>
          IF task_data.dropbox_refresh_token
          THEN /\ refresh_calls = 1
               /\ \/ upload_calls = 2 /\ raised.kind # "refresh"
                  \/ upload_calls = 1 /\ raised.kind = "refresh"
          ELSE refresh_calls = 0 /\ upload_calls = 1 /\ raised = first_error

\* C6 witness: the first call failed in a file write, the token was
\* refreshed once and the retried call succeeded.
C6_Witness ==
    /\ outcome = "success"
    /\ first_error.at = "files_upload"
    /\ refresh_calls = 1
    /\ upload_calls = 2

\* C7: every failed attempt of create_user_task enqueues exactly one
\* cleanup task before its retry is decided; the payload carries the subject
\* id iff sign-up returned one in that attempt, the avatar key iff the avatar
\* was copied in that attempt and the record id iff the User row was
\* persisted; the attempt is retried while fewer than max_retries retries
\* were used, and the fourth failed attempt returns success=False.
C7_UserFailurePolicy ==
    /\ uretries <= max_retries
    /\ uattempts = IF upc \in {"none", "queued"} THEN uretries ELSE uretries + 1
    /\ upc \in {"confirm", "avatar", "create_user", "uhandler"} => enqueued = 0
    /\ upc = "uretry_check" =>
          /\ enqueued = 1
          /\ enq_payload.username = user_data.username
          /\ (enq_payload.user_sub # 0) <=> signed_up
          /\ signed_up => enq_payload.user_sub = created_user_sub
          /\ (enq_payload.uploaded_avatar_key # NULL) <=> copied
          /\ (enq_payload.user_instance_id # 0) <=> persisted
    /\ uoutcome = "success" => upc = "done" /\ enqueued = 0
    /\ uoutcome = "retry" => upc = "queued" /\ enqueued = 1
    /\ uoutcome = "failure" =>
          /\ upc = "done"
          /\ enqueued = 1
          /\ uretries = max_retries
          /\ uattempts = max_retries + 1

\* C7 witness: the fourth attempt failed after its sign-up had returned a
\* subject id, enqueued the cleanup with that id and returned success=False.
C7_Witness ==
    /\ uoutcome = "failure"
    /\ uattempts = 4
    /\ signed_up
    /\ enq_payload.user_sub = created_user_sub
    /\ created_user_sub # 0

\* Payloads of cleanup tasks: waiting, or held by the running or finished one.
CleanupMessages ==
    {cleanup_queue[k] : k \in 1..Len(cleanup_queue)}
        \cup (IF cexit = "none" THEN {} ELSE {cleanup_data})

\* C8: an attempt that fails after sign-up succeeded and before the User row
\* was persisted enqueues a cleanup with the subject id and the username and
\* without a record id; the cleanup task run on such a payload attempts the
\* account deletion and no lookup or delete of a User row.
C8_CleanupAfterSignUpOnly ==
    /\ (upc = "uretry_check" /\ signed_up /\ ~persisted) =>
          /\ enq_payload.user_sub = created_user_sub
          /\ enq_payload.user_sub # 0
          /\ enq_payload.user_instance_id = 0
          /\ enq_payload.username = user_data.username
    /\ \A data \in CleanupMessages : data.user_instance_id = 0
    /\ (cexit # "none" /\ cleanup_data.user_sub # 0) =>
          /\ "db" \notin attempted
          /\ (cpc = "s3" \/ cexit = "returned") => "cognito" \in attempted

\* C8 witness: a cleanup enqueued after sign-up alone has returned, having
\* deleted the account and attempted nothing on the record store.
C8_Witness ==
    /\ cexit = "returned"
    /\ HasAccount(cleanup_data)
    /\ attempted = {"cognito"}
    /\ cognito = {}
    /\ uattempts >= 1

\* C9 as stated: whatever error a deletion raises, each deletion whose
\* payload field is set has been attempted by the time the task ends.
C9_DeletionsIndependent ==
    cexit \in {"returned", "raised"} =>
        /\ HasUserRecord(cleanup_data) => "db" \in attempted
        /\ HasAccount(cleanup_data) => "cognito" \in attempted
        /\ HasAvatarKey(cleanup_data) => "s3" \in attempted

\* C10: cleanup_failed_signup never ends by raising, whatever payload it
\* runs on and whatever the stores answer; it puts no message on a queue and
\* leaves the user pipeline alone.
C10_CleanupNeverPropagates ==
    /\ cexit # "raised"
    /\ cpc = "idle" => cexit \in {"none", "returned"}
    /\ Len(cleanup_queue) = IF cexit = "none" THEN 1 ELSE 0
    /\ upc = "none" /\ pc = "none"

\* C10 witness: the record store failed with an error the inner clause does
\* not name; the task returned through the outer handler.
C10_Witness ==
    /\ cexit = "returned"
    /\ attempted = {"db"}
    /\ HasAccount(cleanup_data)
    /\ users # {}

\* The signup ended in terminal failure and every cleanup task it enqueued
\* has run to its end.
FailedAndCleanedUp ==
    /\ uoutcome = "failure"
    /\ cleanup_queue = <<>>
    /\ cpc = "idle"

\* C11 as stated: after a terminal failure, once every enqueued cleanup has
\* completed, no User row, no account of that username and no avatar blob
\* is left.
C11_FullyCompensated ==
    FailedAndCleanedUp => users = {} /\ cognito = {} /\ blobs = {}

\* C11 as amended: the same, unless a cleanup's deletion was refused by its
\* service while the thing to delete existed; the refusal is swallowed and
\* what it was to delete stays.
C11_CompensatedUnlessRefused ==
    FailedAndCleanedUp =>
        /\ users = {}
        /\ blobs = {}
        /\ cognito # {} => delete_refused
        /\ \A a \in cognito : a.username = user_data.username

\* C11 witness: four attempts failed, at least one after its sign-up; the
\* cleanups have run, none was refused, and no account is left.
C11_Witness ==
    /\ FailedAndCleanedUp
    /\ ~delete_refused
    /\ next_sub > 1
    /\ cognito = {}
    /\ "cognito" \in attempted

\* Every external call the current attempt of create_user_task made succeeded.
AllCallsOk == \A k \in 1..Len(ucalls) : ucalls[k].ok

\* C12 as stated: a signup with an avatar whose external calls all succeed
\* does not fail its first attempt; it ends with success and a User row
\* whose avatar is the destination key.
C12_AvatarSignupSucceeds ==
    (user_data.avatar /\ uattempts = 1 /\ AllCallsOk) =>
        /\ upc \notin {"uhandler", "uretry_check"}
        /\ uoutcome \notin {"retry", "failure"}
        /\ upc = "done" => \E u \in users : u.avatar_key # NULL

\* The order of the external calls of one attempt.
CallOrder == <<"sign_up", "confirm_sign_up", "copy_object", "delete_object",
               "create_user">>

Rank(call) == CHOOSE i \in 1..Len(CallOrder) : CallOrder[i] = call

Called(call) == \E k \in 1..Len(ucalls) : ucalls[k].call = call

\* C13: the external calls of one attempt are made in the order sign-up,
\* auto-confirm (with DEBUG only), avatar copy, source delete, User create;
\* a call that fails is the last call of its attempt.
C13_CallsInOrder ==
    /\ \A i, j \in 1..Len(ucalls) :
          i < j => Rank(ucalls[i].call) < Rank(ucalls[j].call)
    /\ \A i \in 1..Len(ucalls) : ~ucalls[i].ok => i = Len(ucalls)
    /\ Len(ucalls) >= 1 => ucalls[1].call = "sign_up"
    /\ Called("confirm_sign_up") => DEBUG
    /\ (DEBUG /\ Len(ucalls) >= 2) => ucalls[2].call = "confirm_sign_up"
    /\ (Called("create_user") /\ user_data.avatar) =>
          Called("copy_object") /\ Called("delete_object")
    /\ upc \in {"confirm", "avatar", "create_user"} => AllCallsOk
    /\ (upc = "create_user" /\ DEBUG) => Called("confirm_sign_up")

\* C13 witness: with DEBUG, sign-up and confirmation succeeded and the
\* creation of the User row failed, as the third and last call.
C13_Witness ==
    /\ DEBUG
    /\ upc = "uretry_check"
    /\ Len(ucalls) = 3
    /\ ucalls[2] = [call |-> "confirm_sign_up", ok |-> TRUE]
    /\ ucalls[3] = [call |-> "create_user", ok |-> FALSE]

\* Successful writes of file n in the running upload_files call.
Writes(n) == Cardinality({k \in 1..Len(ops) : ops[k] = Op("write", n)})

\* C14 as stated: after a rate-limit answer that asks for N seconds the
\* client sleeps at least N + 1 seconds before it writes the file again, and
\* within one upload_files call no file has more than one successful write,
\* each having exactly one when the call reaches the shared link.
C14_RateLimitBackoff ==
    /\ [][(pc = "backoff" /\ pc' = "write") =>
             slept' >= rl_error.backoff + 1]_vars
    /\ [](\A n \in 1..MaxFiles : Writes(n) <= 1)
    /\ [](pc = "link" => \A n \in 1..Len(files_to_upload) : Writes(n) = 1)

\* The outcomes of an attempt.
AttemptEnds == {"success", "retry", "failure"}

\* C15 as stated: every attempt of either pipeline that begins eventually
\* ends with success, a scheduled retry or the terminal failure, whatever the
\* remote services answer.
C15_EveryAttemptEnds ==
    /\ (outcome = "running") ~> (outcome \in AttemptEnds)
    /\ (uoutcome = "running") ~> (uoutcome \in AttemptEnds)

\* C15 as amended: every attempt of create_user_task ends; an attempt of
\* create_project_task ends provided the storage service does not go on
\* answering a write with rate-limit errors forever.
C15_EndsUnlessRateLimitedForever ==
    /\ (<>[](pc # "backoff")) => ((outcome = "running") ~> (outcome \in AttemptEnds))
    /\ (uoutcome = "running") ~> (uoutcome \in AttemptEnds)

\* C15 witness: an attempt in which a write was rate-limited and slept on,
\* was then refused for another reason, and which ended with a retry
\* scheduled.
C15_Witness ==
    /\ outcome = "retry"
    /\ raised.at = "files_upload"
    /\ slept > 0

\* C16: a rate-limit answer and the sleep that follows it stay inside the
\* per-file loop: neither step changes the retry counter, the persisted
\* status, the refresh and upload_files call counts or the position in the
\* file list, and the sleep is followed by the write of the same file with
\* the same bytes.
C16_RateLimitStaysInFileLoop ==
    [][((pc = "write" /\ pc' = "backoff") \/ pc = "backoff") =>
          /\ pc = "backoff" => pc' = "write"
          /\ UNCHANGED <<retries, attempts, projects, status_log, outcome,
                         refresh_calls, upload_calls, upload_no, owner_token,
                         first_error, raised, file_i, content,
                         files_to_upload, dbx_files, ops>>]_vars

\* C16 witness: the write of the second file was rate-limited and slept on;
\* the same file is about to be written, the first attempt still running
\* with nothing but `processing` persisted.
C16_Witness ==
    /\ pc = "write"
    /\ slept > 0
    /\ file_i = 1
    /\ retries = 0
    /\ status_log = <<"processing">>
    /\ refresh_calls = 0
    /\ upload_calls = 1

\* The running upload_files call has created the shared link.
Linked == \E k \in 1..Len(ops) : ops[k].op = "link"

\* C17: a write refused with an error other than a rate limit is the last
\* remote operation of its upload_files call: the file is not written, the
\* files before it are written once, no later file is written, no shared
\* link is created and the call returns no result.
C17_WriteErrorAborts ==
    \A k \in 1..Len(ops) : ops[k].op = "write_error" =>
        /\ k = Len(ops)
        /\ pc \notin UploadPcs \cup {"save_created"}
        /\ outcome # "success"
        /\ result = NoResult
        /\ ~Linked
        /\ file_i = ops[k].file - 1
        /\ \A n \in 1..MaxFiles : Writes(n) = IF n < ops[k].file THEN 1 ELSE 0

\* C17 witness: the write of the fourth file, the first of the second
\* batch, was refused; the attempt is in its failure handler.
C17_Witness ==
    /\ pc = "handler"
    /\ Len(ops) >= 1
    /\ ops[Len(ops)] = Op("write_error", 4)
    /\ Writes(3) = 1

\* The writes of files 1..n in order, a pause after every batch_size-th file
\* and after the last.
RECURSIVE BatchedWrites(_)
BatchedWrites(n) ==
    IF n = 0 THEN <<>>
    ELSE BatchedWrites(n - 1) \o <<Op("write", n)>> \o
         (IF n % batch_size = 0 THEN <<Op("pause", 0)>> ELSE <<>>)

\* What a successful upload_files call of n files does, with or without the
\* creation of the folder.
ExpectedOps(n, mkdir) ==
    <<Op("probe", 0)>> \o (IF mkdir THEN <<Op("mkdir", 0)>> ELSE <<>>)
        \o BatchedWrites(n)
        \o (IF n % batch_size = 0 THEN <<>> ELSE <<Op("pause", 0)>>)
        \o <<Op("link", 0)>>

\* C18: a successful upload_files call probes the folder, creates it if it
\* was absent, writes the files in input order in batches of batch_size with
\* a pause after each batch, creates the shared link last, and returns the
\* path of the folder it wrote to.
C18_UploadOrder ==
    /\ pc \in {"read", "write", "backoff", "pause", "link"} =>
          /\ PathExists(FolderPath(task_data.name))
          /\ ops[1] = Op("probe", 0)
          /\ ~Linked
    /\ pc = "save_created" =>
          /\ \E mkdir \in BOOLEAN : ops = ExpectedOps(Len(files_to_upload), mkdir)
          /\ result.folder_path = FolderPath(task_data.name)
          /\ result.folder_path \in dbx_links

\* C18 witness: a call with four files returned after it had created the
\* folder: three writes, a pause, the fourth write, a pause, the link.
C18_Witness ==
    /\ pc = "save_created"
    /\ ops = <<Op("probe", 0), Op("mkdir", 0), Op("write", 1), Op("write", 2),
               Op("write", 3), Op("pause", 0), Op("write", 4), Op("pause", 0),
               Op("link", 0)>>

\* C19 as stated: no project is given the path of a folder that belongs to
\* another project.
C19_NoSharedFolder ==
    \A r \in projects : r.dropbox_folder_path # NULL =>
        ~\E f \in dbx_folders :
            f.path = r.dropbox_folder_path /\ f.by # r.project_id

\* ---------------------------------------------------------------- C20
\* C20: after any sequence of create_rating submissions, interleaved or
\* not, each triple (project_id, image_id, identity) has at most one stored
\* rating; a triple has a rating exactly when a submission for it was
\* answered 200 or 201, and the stored value is the value of the last such
\* submission. Submissions for two images therefore store two ratings.
C20_RatingUpsert ==
    \A t \in Triples :
        /\ Cardinality(RatingsOf(t)) <= 1
        /\ last_value[t] = 0 <=> RatingsOf(t) = {}
        /\ \A r \in RatingsOf(t) : r.value = last_value[t]

\* C20 witness: two submissions for the same triple interleaved between the
\* query and the insert (the second insert was refused and answered 500),
\* and a second image of the same identity has its own rating.
C20_Witness ==
    /\ rating_resp = 500
    /\ \E r1, r2 \in ratings :
          /\ r1.image_id = 1 /\ r2.image_id = 2
          /\ r1.user_id_anonymous = "u1"
          /\ r2.user_id_anonymous = "u1"
          /\ r1.value = 2 /\ r2.value = 1
    /\ Cardinality(ratings) = 2

\* ---------------------------------------------------------------- C22
\* C22: when the failure handler finds no row of the project it writes no
\* project record and goes on to the retry decision; an attempt that came
\* to the retry decision without having written `failed` is retried while
\* fewer than max_retries retries were used and returns success=False
\* otherwise, and writes no project record in doing so.
C22_MissingRowSwallowed ==
    /\ [][(pc = "handler" /\ pc' # pc /\ Lookup(task_data.project_id) = {}) =>
             /\ pc' = "retry_check"
             /\ UNCHANGED <<projects, project, status_log, retries, outcome>>]_vars
    /\ [][(pc = "retry_check" /\ pc' # pc /\ project.status # "failed") =>
             /\ UNCHANGED <<projects, status_log>>
             /\ IF retries < max_retries
                THEN retries' = retries + 1 /\ outcome' = "retry" /\ pc' = "queued"
                ELSE retries' = retries /\ outcome' = "failure" /\ pc' = "done"]_vars

\* C22 witness: the owner deleted the project while the last attempt was
\* running; its handler wrote nothing and the task returned success=False.
C22_Witness ==
    /\ outcome = "failure"
    /\ projects = {}
    /\ retries = max_retries
    /\ project.status = "processing"
    /\ status_log[Len(status_log)] = "processing"

\* ---------------------------------------------------------------- C23
\* C23: every save is a whole-record write. After a save of the owner's
\* update the stored record is the copy the update loaded, with the edited
\* field changed, whatever the pipeline saved since the load; after a save
\* of the pipeline the stored record is the pipeline's copy, whatever the
\* owner saved since the pipeline loaded it.
C23_LastWriterWins ==
    [][/\ (upd_pc = "loaded" /\ upd_pc' = "idle") =>
             projects' = {[upd_inst EXCEPT !.is_public = TRUE]}
       /\ (pc \in {"set_processing", "save_created", "fail_save"} /\ pc' # pc) =>
             projects' = {project'}]_vars

\* C23 witness: the update loaded the record while it was `processing`, the
\* pipeline then saved `created` with folder path and link, and the
\* update's save came last: the pipeline's three fields are lost.
C23_Witness ==
    /\ outcome = "success"
    /\ status_log[Len(status_log)] = "created"
    /\ upd_pc = "idle"
    /\ projects = {[project EXCEPT !.status = "processing",
                                   !.dropbox_folder_path = NULL,
                                   !.dropbox_shared_link = NULL,
                                   !.is_public = TRUE]}
    /\ ~project.is_public

\* ---------------------------------------------------------------- C30
\* C30 as stated: once the project's row is deleted, no step of
\* create_project_task makes a row with that project_id exist again.
C30_DeletedStaysDeleted ==
    [][(pc # "none" /\ Lookup(task_data.project_id) = {}
        /\ taskVars' # taskVars) =>
          Lookup(task_data.project_id)' = {}]_vars

\* ---------------------------------------------------------------- C24
\* C24 as stated: for every combination of direct files and S3 locations
\* the list handed to the first upload_files call has one stream per direct
\* file followed by one per location, in input order, none of them read
\* yet; and an attempt that fails before any upload_files call fails in a
\* blob read.
C24_InputsMaterialized ==
    /\ (pc = "call_upload" /\ upload_no = 0) =>
          files_to_upload =
             [n \in 1..(task_data.nfiles + task_data.nlocs) |-> Stream(n)]
    /\ (pc = "handler" /\ upload_calls = 0) => raised.kind = "S3Error"

\* ---------------------------------------------------------------- C26
\* C26 as stated: whenever the project is `created`, every input file of the
\* task is stored in the remote folder with the bytes it had in the payload.
C26_CreatedHasAllBytes ==
    \A r \in projects :
        r.status = "created" =>
            \A n \in 1..(task_data.nfiles + task_data.nlocs) : dbx_files[n] = "full"

\* ---------------------------------------------------------------- C29
\* C29: in every attempt the first upload_files call runs with the access
\* token of the task payload, also when an earlier attempt has stored a
\* refreshed token on the owner's record; an attempt whose first call failed
\* while the record holds a refreshed token makes exactly one refresh call
\* of its own, before anything else.
C29_PayloadTokenFirst ==
    /\ (upload_no = 1 /\ pc \in UploadPcs) =>
          dbx_token = task_data.dropbox_access_token
    /\ (first_error # NoError /\ owner_token # task_data.dropbox_access_token) =>
          refresh_calls = IF pc = "refresh" THEN 0 ELSE 1

\* C29 witness: the second attempt, whose first call ran with the payload
\* token although the first attempt had refreshed it, has made its own
\* refresh and is writing with the token that refresh returned.
C29_Witness ==
    /\ attempts = 2
    /\ owner_token = task_data.dropbox_access_token + 2
    /\ refresh_calls = 1
    /\ upload_no = 2
    /\ dbx_token = owner_token
    /\ pc = "write"

\* ---------------------------------------------------------------- C28
\* C28: an attempt that persisted the User record has returned success and
\* has enqueued no cleanup; every cleanup payload, waiting or running, has
\* no record id; no cleanup run attempts the deletion of a record, and no
\* step removes a User record.
C28_RecordNeverCompensated ==
    /\ [](persisted => upc = "done" /\ uoutcome = "success" /\ enqueued = 0)
    /\ [](\A k \in 1..Len(cleanup_queue) : cleanup_queue[k].user_instance_id = 0)
    /\ [](enq_payload.user_instance_id = 0 /\ cleanup_data.user_instance_id = 0)
    /\ []("db" \notin attempted)
    /\ [][users \subseteq users']_vars

\* C28 witness: the record was persisted by a retry attempt, after the
\* cleanup of a failed earlier attempt has run and while the cleanup of
\* another one is still waiting.
C28_Witness ==
    /\ persisted /\ uoutcome = "success"
    /\ uattempts >= 3
    /\ users # {}
    /\ cexit = "returned" /\ "cognito" \in attempted
    /\ Len(cleanup_queue) >= 1

\* ---------------------------------------------------------------- C27
\* C27 as stated: whenever a User record exists, the identity-provider
\* account of the attempt that created it exists.
C27_LaterSuccessKept ==
    \A u \in users : \E a \in cognito : a.sub = u.user_id

\* ---------------------------------------------------------------- C21
\* C21 as stated: in every User record the avatar bucket and key are both
\* present or both absent, and so are the access token and the refresh
\* token, after user creation, update_dropbox_token and token refresh.
C21_PairsTogether ==
    \A user \in users :
        /\ (user.avatar_bucket = NULL) <=> (user.avatar_key = NULL)
        /\ (user.dropbox_access_token = NULL) <=> (user.dropbox_refresh_token = NULL)

====
